---- MODULE Spec2Model ----
(***************************************************************************)
(* The three dependency analysers of the repository, each a separate       *)
(* program run on the same kind of input (one .asmdef declaration per      *)
(* module):                                                                *)
(*   ADA  assembly_dependency_analyzer.py  AssemblyDependencyAnalyzer      *)
(*   DA   Tools/dependency_analyzer.py     DependencyAnalyzer              *)
(*   ACD  analyze_circular_deps.py         module-level functions          *)
(* and the two scripts that change the project's files:                    *)
(*   FIX  fix_circular_dependencies.py     CircularDependencyFixer         *)
(*   DEL  Tools/deletion_execution_script.py  SafeDeletionExecutor         *)
(* A behaviour is one run of one program.  The recursive traversals are    *)
(* modelled with an explicit call stack (calls); the iteration order of a  *)
(* dict, set or list is a nondeterministic choice of the next element.     *)
(* A "references" list is modelled by the set of its entries.  The locals  *)
(* of a traversal are given up when it returns.                            *)
(***************************************************************************)
EXTENDS Integers, Sequences, FiniteSets, TLC

VARIABLES
    tool,                      \* which program this behaviour runs
    pc,                        \* position in the program's main routine
    asmdef,                    \* the declarations on disk: name -> JSON data
    assemblies,                \* self.assemblies / assemblies
    dependency_graph,          \* self.dependency_graph / graph
    reverse_dependency_graph,  \* self.reverse_dependency_graph (ADA)
    calls,                     \* active strongconnect / dfs calls, innermost last
    index_counter, stack, lowlinks, index, on_stack,   \* Tarjan locals
    scc_list,                  \* Tarjan result (scc_list / components)
    visited, rec_stack, path,  \* DFS locals (path: the shared list of DA)
    cycles,                    \* DFS result
    violations,                \* analyze_dependency_violations result
    recommendations,           \* generate_fix_recommendations result
    exit_code,                 \* the exit status of analyze_circular_deps.py
    files,                     \* the .asmdef files found on disk: stem -> content
    loaded,                    \* the files the loader's loop has gone through
    printed,                   \* what the loader printed: message -> times
    first,                     \* the results of an earlier run on the same input
    disk,                      \* the files the fixer / the deletion script works on: path -> content
    disk0,                     \* the disk as it was when the script started
    fixes_applied,             \* CircularDependencyFixer.fixes_applied
    deletion_log,              \* SafeDeletionExecutor.deletion_log
    audit_data,                \* SafeDeletionExecutor.audit_data
    results                    \* the dict that execute_cleanup returns

vars == <<tool, pc, asmdef, assemblies, dependency_graph, reverse_dependency_graph,
          calls, index_counter, stack, lowlinks, index, on_stack, scc_list,
          visited, rec_stack, path, cycles, violations, recommendations,
          exit_code, files, loaded, printed, first,
          disk, disk0, fixes_applied, deletion_log, audit_data, results>>

tarjanVars == <<index_counter, stack, lowlinks, index, on_stack, scc_list>>
dfsVars    == <<visited, rec_stack, path, cycles>>
graphVars  == <<assemblies, dependency_graph, reverse_dependency_graph>>
loadVars   == <<files, loaded, printed>>
scriptVars == <<disk, disk0, fixes_applied, deletion_log, audit_data, results>>
restVars   == <<recommendations, exit_code, loadVars, first, scriptVars>>

---------------------------------------------------------------------------
(* Inputs *)

\* Names of the declared modules; the substrings the classifier looks for
\* ('.Editor', '.Testing', '.Test') occur in the second and third name.
Modules == {"P.Core", "P.Editor", "P.Testing"}

\* A dependency target that no declaration names.
External == "Ext.Lib"

\* An assemblyReferences entry given as a GUID.
GuidRef == "GUID:1"

Programs == {"ADA", "DA", "ACD"}

\* Total number of "references" and "assemblyReferences" entries over all
\* declarations.
MaxRefs == 3

\* Total number of "assemblyReferences" entries over all declarations.
MaxAsmRefs == 1

RefTargets == Modules \cup {External}
AsmTargets == Modules \cup {GuidRef}

\* the "references" entries of all declarations, as (module, target) pairs
RefChoices == {E \in SUBSET (Modules \X RefTargets) : Cardinality(E) <= MaxRefs}

\* the "assemblyReferences" entries of all declarations, as (module, target) pairs
AsmChoices == {E \in SUBSET (Modules \X AsmTargets) : Cardinality(E) <= MaxAsmRefs}

\* the "assemblyReferences" that may accompany the "references" r
AsmChoicesFor(r) == {a \in AsmChoices : Cardinality(r) + Cardinality(a) <= MaxRefs}

\* the targets that the pairs E give module m
TargetsOf(E, m) == {e[2] : e \in {x \in E : x[1] = m}}

NoAsmRefs  == {}

---------------------------------------------------------------------------
(* Python helpers *)

EmptyDict == << >>

\* dict.get(key, default)
Get(d, k, default) == IF k \in DOMAIN d THEN d[k] ELSE default

\* d[k] = v
Put(d, k, v) == [x \in (DOMAIN d) \cup {k} |-> IF x = k THEN v ELSE d[x]]

\* defaultdict(set): d[k].add(v)
AddTo(d, k, v) == Put(d, k, Get(d, k, {}) \cup {v})

\* d[k] on a defaultdict(set), for each k of keys: a missing key is inserted
AfterIndexing(d, keys) == [k \in (DOMAIN d) \cup keys |-> Get(d, k, {})]

\* the dict after d.get(k, default) (or "k in d") for each k of keys: as before
AfterGet(d, keys) == d

\* min taken for max
MinAsMax(a, b) == IF a <= b THEN b ELSE a

Min(a, b) == IF a <= b THEN a ELSE b

\* list.index(x): the first position of x (Python raises ValueError when absent;
\* here the CHOOSE is then undefined and TLC reports it)
ListIndex(s, x) == CHOOSE i \in 1..Len(s) : s[i] = x /\ \A j \in 1..(i - 1) : s[j] # x

\* s[i:] with i a 1-based position
SliceFrom(s, i) == SubSeq(s, i, Len(s))

Top(s) == s[Len(s)]
Pop(s) == SubSeq(s, 1, Len(s) - 1)
Range(s) == {s[i] : i \in 1..Len(s)}

Frame(n, p, t) == [node |-> n, path |-> p, todo |-> t]

\* the innermost frame with neighbour n taken off its iteration
Advance(n) == [calls EXCEPT ![Len(calls)].todo = @ \ {n}]

\* the locals of find_strongly_connected_components end with its return
TarjanLocalsGone ==
    /\ index_counter' = 0
    /\ stack' = << >>
    /\ lowlinks' = EmptyDict
    /\ index' = EmptyDict
    /\ on_stack' = EmptyDict

\* the locals of detect_circular_dependencies / find_cycles end with its return
DfsLocalsGone ==
    /\ visited' = {}
    /\ rec_stack' = {}
    /\ path' = << >>

---------------------------------------------------------------------------
(* Name tests of the violation classifier.  Python's substring test 'x in name'
   is tabulated over the names of the model. *)

\* '.Editor' in name
HasDotEditor(name) == name \in {"P.Editor"}

\* '.Testing' in name or '.Test' in name
HasDotTest(name) == name \in {"P.Testing"}

\* ref.startswith('GUID:')
StartsWithGuid(ref) == ref \in {GuidRef}

\* the value of exit_code while the process has not exited (no exit status)
NoExit == -1

\* no earlier run
NoRun == << >>

---------------------------------------------------------------------------
(* Start: one program is started on one set of declarations. *)

Init ==
    /\ tool \in Programs
    /\ pc = "load"
    /\ \E r \in RefChoices :
       \E a \in (IF tool = "ADA" THEN AsmChoicesFor(r) ELSE {NoAsmRefs}) :
          asmdef = [m \in Modules |-> [references |-> TargetsOf(r, m),
                                        assemblyReferences |-> TargetsOf(a, m)]]
    /\ assemblies = EmptyDict
    /\ dependency_graph = EmptyDict
    /\ reverse_dependency_graph = EmptyDict
    /\ calls = << >>
    /\ index_counter = 0
    /\ stack = << >>
    /\ lowlinks = EmptyDict
    /\ index = EmptyDict
    /\ on_stack = EmptyDict
    /\ scc_list = << >>
    /\ visited = {}
    /\ rec_stack = {}
    /\ path = << >>
    /\ cycles = << >>
    /\ violations = [editor_runtime_cycles |-> {}, test_production_cycles |-> {},
                     circular_core_dependencies |-> {}, missing_dependencies |-> {}]
    /\ recommendations = << >>
    /\ exit_code = NoExit
    /\ files = EmptyDict
    /\ loaded = {}
    /\ printed = EmptyDict
    /\ first = NoRun
    /\ disk = EmptyDict
    /\ disk0 = EmptyDict
    /\ fixes_applied = << >>
    /\ deletion_log = << >>
    /\ audit_data = EmptyDict
    /\ results = EmptyDict

---------------------------------------------------------------------------
(* AssemblyDependencyAnalyzer *)

\* load_assembly_definitions: every declaration is stored under its name
AdaLoad ==
    /\ tool = "ADA" /\ pc = "load"
    /\ assemblies' = [m \in DOMAIN asmdef |->
                        [references |-> asmdef[m].references,
                         assembly_references |-> asmdef[m].assemblyReferences]]
    /\ pc' = "build"
    /\ UNCHANGED <<restVars, tool, asmdef, dependency_graph, reverse_dependency_graph, calls,
                   tarjanVars, dfsVars, violations>>

\* the (assembly, ref) pairs that build_dependency_graph adds an edge for
AdaEdges(asm) ==
    {e \in (DOMAIN asm) \X (RefTargets \cup AsmTargets) :
        \/ e[2] \in asm[e[1]].references
        \/ e[2] \in asm[e[1]].assembly_references /\ ~StartsWithGuid(e[2])}

\* line 56 written "self.reverse_dependency_graph[assembly_name].add(ref)": both
\* graphs get the forward edge
AddEdgesSameWay(d, E, fwd) ==
    [k \in (DOMAIN d) \cup {e[1] : e \in E} |->
        Get(d, k, {}) \cup {e[2] : e \in {x \in E : x[1] = k}}]

RECURSIVE AddEdges(_, _, _)
\* the two lines "graph[a].add(b)" of build_dependency_graph, for each pair;
\* fwd is TRUE for dependency_graph and FALSE for reverse_dependency_graph
AddEdges(d, E, fwd) ==
    IF E = {} THEN d
    ELSE LET e == CHOOSE x \in E : TRUE
         IN AddEdges(IF fwd THEN AddTo(d, e[1], e[2]) ELSE AddTo(d, e[2], e[1]),
                     E \ {e}, fwd)

AdaBuild ==
    /\ tool = "ADA" /\ pc = "build"
    /\ dependency_graph' = AddEdges(dependency_graph, AdaEdges(assemblies), TRUE)
    /\ reverse_dependency_graph' =
           AddEdges(reverse_dependency_graph, AdaEdges(assemblies), FALSE)
    /\ pc' = "scc"
    /\ UNCHANGED <<restVars, tool, asmdef, assemblies, calls, tarjanVars, dfsVars, violations>>

\* the test "if neighbor in self.assemblies" left out
AdaInternalAlways(n) == TRUE

\* "if neighbor in self.assemblies": only internal assemblies are followed
AdaInternal(n) == n \in DOMAIN assemblies

\* self.dependency_graph.get(node, set())
AdaNeighbors(node) == Get(dependency_graph, node, {})

(* find_strongly_connected_components *)

\* "elif neighbor in index" written for "elif on_stack.get(neighbor, False)"
AdaOnStackAsIndexed(neighbor) == neighbor \in DOMAIN index

\* "elif on_stack.get(neighbor, False)"
AdaOnStack(neighbor) == Get(on_stack, neighbor, FALSE)

\* the first five lines of strongconnect(node)
AdaEnter(node, cs) ==
    /\ index' = Put(index, node, index_counter)
    /\ lowlinks' = Put(lowlinks, node, index_counter)
    /\ index_counter' = index_counter + 1
    /\ stack' = Append(stack, node)
    /\ on_stack' = Put(on_stack, node, TRUE)
    /\ calls' = Append(cs, Frame(node, << >>, AdaNeighbors(node)))
    /\ dependency_graph' = AfterGet(dependency_graph, {node})

\* "for assembly in self.assemblies.keys(): if assembly not in index"
AdaSccRoot ==
    /\ tool = "ADA" /\ pc = "scc" /\ calls = << >>
    /\ \E assembly \in (DOMAIN assemblies) \ (DOMAIN index) :
          AdaEnter(assembly, calls)
    /\ UNCHANGED <<restVars, tool, pc, asmdef, assemblies, reverse_dependency_graph,
                   scc_list, dfsVars, violations>>

\* one iteration of "for neighbor in ..." in strongconnect
AdaSccVisit ==
    /\ tool = "ADA" /\ pc = "scc" /\ calls # << >>
    /\ LET node == Top(calls).node IN
       \E neighbor \in Top(calls).todo :
          IF ~AdaInternal(neighbor)
          THEN /\ calls' = Advance(neighbor)
               /\ UNCHANGED <<index_counter, stack, lowlinks, index, on_stack,
                              dependency_graph>>
          ELSE IF neighbor \notin DOMAIN index
          THEN AdaEnter(neighbor, Advance(neighbor))
          ELSE IF AdaOnStack(neighbor)
          THEN /\ lowlinks' = Put(lowlinks, node, Min(lowlinks[node], index[neighbor]))
               /\ calls' = Advance(neighbor)
               /\ UNCHANGED <<index_counter, stack, index, on_stack, dependency_graph>>
          ELSE /\ calls' = Advance(neighbor)
               /\ UNCHANGED <<index_counter, stack, lowlinks, index, on_stack,
                              dependency_graph>>
    /\ UNCHANGED <<restVars, tool, pc, asmdef, assemblies, reverse_dependency_graph,
                   scc_list, dfsVars, violations>>

\* the members popped by "while True: w = stack.pop() ... if w == node: break",
\* in popping order
PoppedComponent(stk, node) ==
    LET i == CHOOSE k \in 1..Len(stk) : stk[k] = node /\ \A j \in (k + 1)..Len(stk) : stk[j] # node
    IN [k \in 1..(Len(stk) - i + 1) |-> stk[Len(stk) - k + 1]]

\* "if len(component) > 2"
ReportedAbove2(component) == Len(component) > 2

\* "if len(component) >= 1"
ReportedFrom1(component) == Len(component) >= 1

\* "if len(component) > 1": only components with several nodes are reported
Reported(component) == Len(component) > 1

\* "if lowlinks[node] == index[node]": node is the root of a component
IsComponentRoot(node) == lowlinks[node] = index[node]

\* the end of strongconnect(node), and in the caller the statement after the call:
\* lowlinks[caller] = min(lowlinks[caller], lowlinks[node])
AdaSccReturn ==
    /\ tool = "ADA" /\ pc = "scc" /\ calls # << >>
    /\ Top(calls).todo = {}
    /\ LET node == Top(calls).node
           component == PoppedComponent(stack, node)
           after == IF Len(calls) > 1
                    THEN LET caller == calls[Len(calls) - 1].node
                         IN Put(lowlinks, caller, Min(lowlinks[caller], lowlinks[node]))
                    ELSE lowlinks
       IN /\ IF IsComponentRoot(node)
             THEN /\ stack' = SubSeq(stack, 1, Len(stack) - Len(component))
                  /\ on_stack' = [w \in DOMAIN on_stack |->
                                    IF w \in Range(component) THEN FALSE ELSE on_stack[w]]
                  /\ scc_list' = IF Reported(component)
                                 THEN Append(scc_list, component) ELSE scc_list
             ELSE UNCHANGED <<stack, on_stack, scc_list>>
          /\ lowlinks' = after
          /\ calls' = Pop(calls)
    /\ UNCHANGED <<restVars, tool, pc, asmdef, graphVars, index_counter, index, dfsVars, violations>>

\* "return scc_list"; run_analysis goes on to detect_circular_dependencies
AdaSccDone ==
    /\ tool = "ADA" /\ pc = "scc" /\ calls = << >>
    /\ (DOMAIN assemblies) \subseteq (DOMAIN index)
    /\ pc' = "cycles"
    /\ TarjanLocalsGone
    /\ UNCHANGED <<restVars, tool, asmdef, graphVars, calls, scc_list, dfsVars, violations>>

(* detect_circular_dependencies *)

\* "cycle = path + [node]": the whole path instead of its slice
CycleWholePath(p, node) == p \o <<node>>

\* "cycle = path[cycle_start:] + [node]" with cycle_start = path.index(node)
CycleFrom(p, node) == SliceFrom(p, ListIndex(p, node)) \o <<node>>

\* "if node in visited: return" placed before the rec_stack test, so that the
\* rec_stack test is reached only for nodes not yet visited
OnRecStackAfterVisited(node) == node \in rec_stack /\ node \notin visited

\* "if node in rec_stack": the node is on the current recursion path
OnRecStack(node) == node \in rec_stack

\* the test "if node in visited: return" left out
AlreadyVisitedNever(node) == FALSE

\* "if node in visited: return": the node's subtree has been explored
AlreadyVisited(node) == node \in visited

\* dfs(node, p) up to its loop, for a node that is neither on rec_stack nor visited
AdaDfsEnter(node, p, cs) ==
    /\ visited' = visited \cup {node}
    /\ rec_stack' = rec_stack \cup {node}
    /\ calls' = Append(cs, Frame(node, Append(p, node), AdaNeighbors(node)))
    /\ dependency_graph' = AfterGet(dependency_graph, {node})
    /\ UNCHANGED cycles

\* "for assembly in self.assemblies.keys(): if assembly not in visited: dfs(assembly, [])"
AdaDetectRoot ==
    /\ tool = "ADA" /\ pc = "cycles" /\ calls = << >>
    /\ \E assembly \in (DOMAIN assemblies) \ visited :
          IF OnRecStack(assembly)
          THEN /\ cycles' = Append(cycles, CycleFrom(<< >>, assembly))
               /\ UNCHANGED <<visited, rec_stack, calls, dependency_graph>>
          ELSE AdaDfsEnter(assembly, << >>, calls)
    /\ UNCHANGED <<restVars, tool, pc, asmdef, assemblies, reverse_dependency_graph,
                   tarjanVars, path, violations>>

\* one iteration of "for neighbor in ...: if neighbor in self.assemblies:
\* dfs(neighbor, path.copy())", with the three ways dfs can begin
AdaDetectVisit ==
    /\ tool = "ADA" /\ pc = "cycles" /\ calls # << >>
    /\ \E neighbor \in Top(calls).todo :
          IF ~AdaInternal(neighbor)
          THEN /\ calls' = Advance(neighbor)
               /\ UNCHANGED <<visited, rec_stack, cycles, dependency_graph>>
          ELSE IF OnRecStack(neighbor)
          THEN /\ cycles' = Append(cycles, CycleFrom(Top(calls).path, neighbor))
               /\ calls' = Advance(neighbor)
               /\ UNCHANGED <<visited, rec_stack, dependency_graph>>
          ELSE IF AlreadyVisited(neighbor)
          THEN /\ calls' = Advance(neighbor)
               /\ UNCHANGED <<visited, rec_stack, cycles, dependency_graph>>
          ELSE AdaDfsEnter(neighbor, Top(calls).path, Advance(neighbor))
    /\ UNCHANGED <<restVars, tool, pc, asmdef, assemblies, reverse_dependency_graph,
                   tarjanVars, path, violations>>

\* "rec_stack.remove(node)" and the return of dfs
AdaDetectReturn ==
    /\ tool = "ADA" /\ pc = "cycles" /\ calls # << >>
    /\ Top(calls).todo = {}
    /\ rec_stack' = rec_stack \ {Top(calls).node}
    /\ calls' = Pop(calls)
    /\ UNCHANGED <<restVars, tool, pc, asmdef, graphVars, tarjanVars, visited, path, cycles,
                   violations>>

\* "return cycles"; run_analysis goes on to analyze_dependency_violations
AdaDetectDone ==
    /\ tool = "ADA" /\ pc = "cycles" /\ calls = << >>
    /\ (DOMAIN assemblies) \subseteq visited
    /\ pc' = "violations"
    /\ DfsLocalsGone
    /\ UNCHANGED <<restVars, tool, asmdef, graphVars, calls, tarjanVars, cycles, violations>>

(* analyze_dependency_violations *)

\* the entry f"{assembly_name} <-> {assembly_name}"
EntrySameName(assembly_name, dep) == <<assembly_name, assembly_name>>

\* the entry f"{assembly_name} <-> {dep}"
Entry(assembly_name, dep) == <<assembly_name, dep>>

\* "if assembly_name in self.dependency_graph.get(dep, set())": dep depends back
DependsBack(dep, assembly_name) == assembly_name \in Get(dependency_graph, dep, {})

EditorRuntimeCycles ==
    {Entry(a, dep) : a \in {x \in DOMAIN assemblies : HasDotEditor(x)},
                     dep \in DOMAIN assemblies} \cap
    {e \in (DOMAIN assemblies) \X (DOMAIN assemblies) :
        /\ e[2] \in assemblies[e[1]].references
        /\ ~HasDotEditor(e[2])
        /\ DependsBack(e[2], e[1])}

TestProductionCycles ==
    {Entry(a, dep) : a \in {x \in DOMAIN assemblies : HasDotTest(x)},
                     dep \in DOMAIN assemblies} \cap
    {e \in (DOMAIN assemblies) \X (DOMAIN assemblies) :
        /\ e[2] \in assemblies[e[1]].references
        /\ ~HasDotTest(e[2])
        /\ DependsBack(e[2], e[1])}

\* the names dep for which self.dependency_graph.get(dep, set()) is evaluated
ViolationLookups ==
    {e[2] : e \in {x \in (DOMAIN assemblies) \X (DOMAIN assemblies) :
                     /\ x[2] \in assemblies[x[1]].references
                     /\ \/ HasDotEditor(x[1]) /\ ~HasDotEditor(x[2])
                        \/ HasDotTest(x[1]) /\ ~HasDotTest(x[2])}}

AdaViolations ==
    /\ tool = "ADA" /\ pc = "violations"
    /\ violations' = [editor_runtime_cycles |-> EditorRuntimeCycles,
                      test_production_cycles |-> TestProductionCycles,
                      circular_core_dependencies |-> {},
                      missing_dependencies |-> {}]
    /\ dependency_graph' = AfterGet(dependency_graph, ViolationLookups)
    /\ pc' = "recommend"
    /\ UNCHANGED <<restVars, tool, asmdef, assemblies, reverse_dependency_graph, calls,
                   tarjanVars, dfsVars>>

(* generate_fix_recommendations *)

\* the lines of the recommendations that depend on the arguments: one
\* "Cycle i: a -> b -> ..." per entry of the first argument, in order, and under
\* each violation type that has items, its items
GenerateFixRecommendations(cycles_arg, violations_arg) ==
    [listed |-> cycles_arg,
     items |-> [k \in {t \in DOMAIN violations_arg : violations_arg[t] # {}} |->
                  violations_arg[k]]]

\* run_analysis: "recommendations = self.generate_fix_recommendations(scc_list,
\* violations)"; the function reads its two arguments only
AdaRecommend ==
    /\ tool = "ADA" /\ pc = "recommend"
    /\ recommendations' = GenerateFixRecommendations(scc_list, violations)
    /\ pc' = "done"
    /\ UNCHANGED <<scriptVars, exit_code, loadVars, first, tool, asmdef, graphVars, calls,
                   tarjanVars, dfsVars, violations>>

---------------------------------------------------------------------------
(* DependencyAnalyzer (Tools/dependency_analyzer.py) *)

\* load_assemblies: self.dependency_graph[assembly_name] = references
DaLoad ==
    /\ tool = "DA" /\ pc = "load"
    /\ assemblies' = [m \in DOMAIN asmdef |-> [references |-> asmdef[m].references]]
    /\ dependency_graph' = [m \in DOMAIN asmdef |-> asmdef[m].references]
    /\ pc' = "cycles"
    /\ UNCHANGED <<restVars, tool, asmdef, reverse_dependency_graph, calls, tarjanVars, dfsVars,
                   violations>>

\* the test "if neighbor in self.dependency_graph" never passing
DaKnownNone(n) == FALSE

\* "if neighbor in self.dependency_graph": only known assemblies are followed
DaKnown(n) == n \in DOMAIN dependency_graph

\* the call dfs(node) made with call stack cs (the caller's iteration already
\* advanced).  A call that finds node on rec_stack records the cycle and returns
\* True, and every caller up the chain returns True at once ("if dfs(neighbor):
\* return True"), without "rec_stack.remove(node)" and "path.pop()".
DaDfs(node, cs) ==
    IF node \in rec_stack
    THEN /\ cycles' = Append(cycles, CycleFrom(path, node))
         /\ calls' = << >>
         /\ UNCHANGED <<visited, rec_stack, path>>
    ELSE IF node \in visited
    THEN /\ calls' = cs
         /\ UNCHANGED <<visited, rec_stack, path, cycles>>
    ELSE /\ visited' = visited \cup {node}
         /\ rec_stack' = rec_stack \cup {node}
         /\ path' = Append(path, node)
         /\ calls' = Append(cs, Frame(node, << >>, Get(dependency_graph, node, {})))
         /\ UNCHANGED cycles

\* "for assembly in self.dependency_graph: if assembly not in visited: dfs(assembly)"
DaRoot ==
    /\ tool = "DA" /\ pc = "cycles" /\ calls = << >>
    /\ \E assembly \in (DOMAIN dependency_graph) \ visited : DaDfs(assembly, calls)
    /\ UNCHANGED <<restVars, tool, pc, asmdef, graphVars, tarjanVars, violations>>

\* one iteration of "for neighbor in self.dependency_graph.get(node, [])"
DaVisit ==
    /\ tool = "DA" /\ pc = "cycles" /\ calls # << >>
    /\ \E neighbor \in Top(calls).todo :
          IF DaKnown(neighbor)
          THEN DaDfs(neighbor, Advance(neighbor))
          ELSE /\ calls' = Advance(neighbor)
               /\ UNCHANGED <<visited, rec_stack, path, cycles>>
    /\ UNCHANGED <<restVars, tool, pc, asmdef, graphVars, tarjanVars, violations>>

\* "rec_stack.remove(node); path.pop(); return False"
DaReturn ==
    /\ tool = "DA" /\ pc = "cycles" /\ calls # << >>
    /\ Top(calls).todo = {}
    /\ rec_stack' = rec_stack \ {Top(calls).node}
    /\ path' = Pop(path)
    /\ calls' = Pop(calls)
    /\ UNCHANGED <<restVars, tool, pc, asmdef, graphVars, tarjanVars, visited, cycles, violations>>

\* "return cycles"
DaDone ==
    /\ tool = "DA" /\ pc = "cycles" /\ calls = << >>
    /\ (DOMAIN dependency_graph) \subseteq visited
    /\ pc' = "done"
    /\ DfsLocalsGone
    /\ UNCHANGED <<restVars, tool, asmdef, graphVars, calls, tarjanVars, cycles, violations>>

---------------------------------------------------------------------------
(* analyze_circular_deps.py *)

\* build_dependency_graph: first pass "assemblies[asmdef['name']] = asmdef", second
\* pass "if ref in assemblies: graph[name].append(ref)" (graph is a defaultdict: a
\* name gets a key only when one of its references is kept)
AcdBuild ==
    /\ tool = "ACD" /\ pc = "load"
    /\ assemblies' = [m \in DOMAIN asmdef |-> [references |-> asmdef[m].references]]
    /\ dependency_graph' =
          [m \in {x \in DOMAIN asmdef : asmdef[x].references \cap DOMAIN asmdef # {}} |->
              asmdef[m].references \cap DOMAIN asmdef]
    /\ pc' = "scc"
    /\ UNCHANGED <<restVars, tool, asmdef, reverse_dependency_graph, calls, tarjanVars, dfsVars,
                   violations>>

\* the first five lines of strongconnect(node); successors are graph.get(node, [])
AcdEnter(node, cs) ==
    /\ index' = Put(index, node, index_counter)
    /\ lowlinks' = Put(lowlinks, node, index_counter)
    /\ index_counter' = index_counter + 1
    /\ stack' = Append(stack, node)
    /\ on_stack' = Put(on_stack, node, TRUE)
    /\ calls' = Append(cs, Frame(node, << >>, Get(dependency_graph, node, {})))
    /\ dependency_graph' = AfterGet(dependency_graph, {node})

\* "for node in graph: if node not in index: strongconnect(node)"
AcdSccRoot ==
    /\ tool = "ACD" /\ pc = "scc" /\ calls = << >>
    /\ \E node \in (DOMAIN dependency_graph) \ (DOMAIN index) : AcdEnter(node, calls)
    /\ UNCHANGED <<restVars, tool, pc, asmdef, assemblies, reverse_dependency_graph,
                   scc_list, dfsVars, violations>>

\* one iteration of "for successor in graph.get(node, [])"
AcdSccVisit ==
    /\ tool = "ACD" /\ pc = "scc" /\ calls # << >>
    /\ LET node == Top(calls).node IN
       \E successor \in Top(calls).todo :
          IF successor \notin DOMAIN index
          THEN AcdEnter(successor, Advance(successor))
          ELSE IF Get(on_stack, successor, FALSE)
          THEN /\ lowlinks' = Put(lowlinks, node, Min(lowlinks[node], index[successor]))
               /\ calls' = Advance(successor)
               /\ UNCHANGED <<index_counter, stack, index, on_stack, dependency_graph>>
          ELSE /\ calls' = Advance(successor)
               /\ UNCHANGED <<index_counter, stack, lowlinks, index, on_stack,
                              dependency_graph>>
    /\ UNCHANGED <<restVars, tool, pc, asmdef, assemblies, reverse_dependency_graph,
                   scc_list, dfsVars, violations>>

\* the end of strongconnect(node), and in the caller the statement after the call
AcdSccReturn ==
    /\ tool = "ACD" /\ pc = "scc" /\ calls # << >>
    /\ Top(calls).todo = {}
    /\ LET node == Top(calls).node
           component == PoppedComponent(stack, node)
       IN /\ IF lowlinks[node] = index[node]
             THEN /\ stack' = SubSeq(stack, 1, Len(stack) - Len(component))
                  /\ on_stack' = [w \in DOMAIN on_stack |->
                                    IF w \in Range(component) THEN FALSE ELSE on_stack[w]]
                  /\ scc_list' = IF Len(component) > 1
                                 THEN Append(scc_list, component) ELSE scc_list
             ELSE UNCHANGED <<stack, on_stack, scc_list>>
          /\ lowlinks' = IF Len(calls) > 1
                         THEN LET caller == calls[Len(calls) - 1].node
                              IN Put(lowlinks, caller, Min(lowlinks[caller], lowlinks[node]))
                         ELSE lowlinks
          /\ calls' = Pop(calls)
    /\ UNCHANGED <<restVars, tool, pc, asmdef, graphVars, index_counter, index, dfsVars, violations>>

\* "return components"
AcdSccDone ==
    /\ tool = "ACD" /\ pc = "scc" /\ calls = << >>
    /\ (DOMAIN dependency_graph) \subseteq (DOMAIN index)
    /\ pc' = "report"
    /\ TarjanLocalsGone
    /\ UNCHANGED <<restVars, tool, asmdef, graphVars, calls, scc_list, dfsVars, violations>>

\* analyze_dependencies after the search: the results are printed ("if assembly in
\* graph: for ref in graph[assembly]" indexes present keys only), then
\* "return len(circular_deps) == 0" and "exit(0 if success else 1)"
AcdExit ==
    /\ tool = "ACD" /\ pc = "report"
    /\ exit_code' = IF Len(scc_list) = 0 THEN 0 ELSE 1
    /\ dependency_graph' = AfterGet(dependency_graph,
                                  UNION {Range(scc_list[i]) : i \in 1..Len(scc_list)})
    /\ pc' = "done"
    /\ UNCHANGED <<scriptVars, recommendations, loadVars, first, tool, asmdef, assemblies,
                   reverse_dependency_graph, calls, tarjanVars, dfsVars, violations>>

---------------------------------------------------------------------------

Next ==
    \/ AdaLoad
    \/ AdaBuild
    \/ AdaSccRoot
    \/ AdaSccVisit
    \/ AdaSccReturn
    \/ AdaSccDone
    \/ AdaDetectRoot
    \/ AdaDetectVisit
    \/ AdaDetectReturn
    \/ AdaDetectDone
    \/ AdaViolations
    \/ AdaRecommend
    \/ DaLoad
    \/ DaRoot
    \/ DaVisit
    \/ DaReturn
    \/ DaDone
    \/ AcdBuild
    \/ AcdSccRoot
    \/ AcdSccVisit
    \/ AcdSccReturn
    \/ AcdSccDone
    \/ AcdExit

Spec == Init /\ [][Next]_vars

---------------------------------------------------------------------------
(* The loaders, one .asmdef file at a time *)

\* the stems of the .asmdef files of the project (a.asmdef, b.asmdef, c.asmdef)
Stems == {"a", "b", "c"}

\* the names that the files declare and refer to
FileNames == {"P.Core", "P.Editor"}

\* the largest number of "references" entries of one file
MaxFileRefs == 1

\* the JSON objects a file may hold: with or without "name"
JsonObjects ==
    {Put(EmptyDict, "references", r) :
        r \in {x \in SUBSET FileNames : Cardinality(x) <= MaxFileRefs}}
    \cup
    {Put(Put(EmptyDict, "references", r), "name", n) :
        r \in {x \in SUBSET FileNames : Cardinality(x) <= MaxFileRefs}, n \in FileNames}

\* a file: json.load returns data, or raises when json is FALSE
FileContents ==
    {[json |-> TRUE, data |-> d] : d \in JsonObjects}
    \cup {[json |-> FALSE, data |-> EmptyDict]}

\* print(message): one more line with this text
Say(out, kind, what) == Put(out, <<kind, what>>, Get(out, <<kind, what>>, 0) + 1)

InitLoad ==
    /\ tool \in Programs
    /\ pc = "files"
    /\ files \in [Stems -> FileContents]
    /\ asmdef = EmptyDict
    /\ loaded = {}
    /\ printed = EmptyDict
    /\ assemblies = EmptyDict
    /\ dependency_graph = EmptyDict
    /\ reverse_dependency_graph = EmptyDict
    /\ calls = << >>
    /\ index_counter = 0
    /\ stack = << >>
    /\ lowlinks = EmptyDict
    /\ index = EmptyDict
    /\ on_stack = EmptyDict
    /\ scc_list = << >>
    /\ visited = {}
    /\ rec_stack = {}
    /\ path = << >>
    /\ cycles = << >>
    /\ violations = [editor_runtime_cycles |-> {}, test_production_cycles |-> {},
                     circular_core_dependencies |-> {}, missing_dependencies |-> {}]
    /\ recommendations = << >>
    /\ exit_code = NoExit
    /\ first = NoRun
    /\ disk = EmptyDict
    /\ disk0 = EmptyDict
    /\ fixes_applied = << >>
    /\ deletion_log = << >>
    /\ audit_data = EmptyDict
    /\ results = EmptyDict

\* the exception of json.load leaves the loader's loop
ParseErrorEscapes == FALSE

\* "except Exception as e: print(...)": the exception of json.load is caught
\* inside the loop (ADA line 47, DA line 36, ACD line 30)
ParseErrorCaught == TRUE

\* the effect of a file whose json.load raises: a line is printed and the loop
\* goes on, or the exception ends the run
ParseError(asmdef_file) ==
    IF ParseErrorCaught
    THEN /\ printed' = Say(printed, "Error", asmdef_file)
         /\ loaded' = loaded \cup {asmdef_file}
         /\ UNCHANGED pc
    ELSE /\ pc' = "aborted"
         /\ UNCHANGED <<printed, loaded>>

\* AssemblyDependencyAnalyzer: data.get('name', asmdef_file.stem)
AdaName(asmdef_file) == Get(files[asmdef_file].data, "name", asmdef_file)

\* DependencyAnalyzer and analyze_circular_deps.py: data.get('name', '')
EmptyDefaultName(asmdef_file) == Get(files[asmdef_file].data, "name", "")

\* load_assembly_definitions: one iteration of "for asmdef_file in asmdef_files"
AdaLoadFile ==
    /\ tool = "ADA" /\ pc = "files"
    /\ \E asmdef_file \in Stems \ loaded :
          IF files[asmdef_file].json
          THEN /\ assemblies' =
                     Put(assemblies, AdaName(asmdef_file),
                         [references |-> Get(files[asmdef_file].data, "references", {}),
                          assembly_references |->
                              Get(files[asmdef_file].data, "assemblyReferences", {})])
               /\ printed' = Say(printed, "Loaded", AdaName(asmdef_file))
               /\ loaded' = loaded \cup {asmdef_file}
               /\ UNCHANGED pc
          ELSE ParseError(asmdef_file) /\ UNCHANGED assemblies
    /\ UNCHANGED <<scriptVars, recommendations, exit_code, files, first, tool, asmdef,
                   dependency_graph, reverse_dependency_graph, calls, tarjanVars, dfsVars,
                   violations>>

\* the end of load_assembly_definitions; "Found N .asmdef files" and
\* "Loaded N assemblies" are printed
AdaLoadDone ==
    /\ tool = "ADA" /\ pc = "files" /\ loaded = Stems
    /\ printed' = Say(Say(printed, "Found", ToString(Cardinality(Stems))),
                      "Count", ToString(Cardinality(DOMAIN assemblies)))
    /\ pc' = "build"
    /\ UNCHANGED <<scriptVars, recommendations, exit_code, files, loaded, first, tool, asmdef, graphVars,
                   calls, tarjanVars, dfsVars, violations>>

\* load_assemblies: one iteration of "for asmdef_file in asmdef_files"
DaLoadFile ==
    /\ tool = "DA" /\ pc = "files"
    /\ \E asmdef_file \in Stems \ loaded :
          IF files[asmdef_file].json
          THEN LET references == Get(files[asmdef_file].data, "references", {}) IN
               /\ assemblies' = Put(assemblies, EmptyDefaultName(asmdef_file),
                                    [references |-> references])
               /\ dependency_graph' =
                     Put(dependency_graph, EmptyDefaultName(asmdef_file), references)
               /\ loaded' = loaded \cup {asmdef_file}
               /\ UNCHANGED <<pc, printed>>
          ELSE ParseError(asmdef_file) /\ UNCHANGED <<assemblies, dependency_graph>>
    /\ UNCHANGED <<scriptVars, recommendations, exit_code, files, first, tool, asmdef,
                   reverse_dependency_graph, calls, tarjanVars, dfsVars, violations>>

\* the end of load_assemblies; "Loaded N assemblies" is printed
DaLoadDone ==
    /\ tool = "DA" /\ pc = "files" /\ loaded = Stems
    /\ printed' = Say(printed, "Count", ToString(Cardinality(DOMAIN assemblies)))
    /\ pc' = "cycles"
    /\ UNCHANGED <<scriptVars, recommendations, exit_code, files, loaded, first, tool, asmdef, graphVars,
                   calls, tarjanVars, dfsVars, violations>>

\* build_dependency_graph, first pass: one iteration of "for file_path in
\* asmdef_files" with parse_asmdef
AcdParseFile ==
    /\ tool = "ACD" /\ pc = "files"
    /\ \E file_path \in Stems \ loaded :
          IF files[file_path].json
          THEN /\ assemblies' =
                     Put(assemblies, EmptyDefaultName(file_path),
                         [references |-> Get(files[file_path].data, "references", {})])
               /\ loaded' = loaded \cup {file_path}
               /\ UNCHANGED <<pc, printed>>
          ELSE ParseError(file_path) /\ UNCHANGED assemblies
    /\ UNCHANGED <<scriptVars, recommendations, exit_code, files, first, tool, asmdef,
                   dependency_graph, reverse_dependency_graph, calls, tarjanVars, dfsVars,
                   violations>>

\* build_dependency_graph, second pass ("if ref in assemblies:
\* graph[name].append(ref)"); "Found N assembly definition files" and
\* "Analyzing N assemblies" are printed
AcdGraph ==
    /\ tool = "ACD" /\ pc = "files" /\ loaded = Stems
    /\ dependency_graph' =
          [m \in {x \in DOMAIN assemblies :
                     assemblies[x].references \cap DOMAIN assemblies # {}} |->
              assemblies[m].references \cap DOMAIN assemblies]
    /\ printed' = Say(Say(printed, "Found", ToString(Cardinality(Stems))),
                      "Count", ToString(Cardinality(DOMAIN assemblies)))
    /\ pc' = "scc"
    /\ UNCHANGED <<scriptVars, recommendations, exit_code, files, loaded, first, tool, asmdef,
                   assemblies, reverse_dependency_graph, calls, tarjanVars, dfsVars,
                   violations>>

NextLoad ==
    \/ AdaLoadFile
    \/ AdaLoadDone
    \/ DaLoadFile
    \/ DaLoadDone
    \/ AcdParseFile
    \/ AcdGraph
    \/ AdaBuild
    \/ AdaSccRoot
    \/ AdaSccVisit
    \/ AdaSccReturn
    \/ AdaSccDone
    \/ AdaDetectRoot
    \/ AdaDetectVisit
    \/ AdaDetectReturn
    \/ AdaDetectDone
    \/ AdaViolations
    \/ AdaRecommend
    \/ DaRoot
    \/ DaVisit
    \/ DaReturn
    \/ DaDone
    \/ AcdSccRoot
    \/ AcdSccVisit
    \/ AcdSccReturn
    \/ AcdSccDone
    \/ AcdExit

SpecLoad == InitLoad /\ [][NextLoad]_vars

---------------------------------------------------------------------------
(* Graph notions the properties are stated with *)

Known == DOMAIN assemblies

\* a forward edge between known modules
Edge(a, b) == a \in Known /\ b \in Known /\ b \in Get(dependency_graph, a, {})

Succ(S) == {b \in Known : \E a \in S : Edge(a, b)}

RECURSIVE Closure(_)
Closure(S) == IF Succ(S) \subseteq S THEN S ELSE Closure(S \cup Succ(S))

\* the modules reachable from a by one or more edges
ReachPlus(a) == Closure(Succ({a}))

\* the strongly connected component of a: a and the modules that a reaches and
\* that reach a
SccOf(a) == {a} \cup {b \in ReachPlus(a) : a \in ReachPlus(b)}

Acyclic == \A a \in Known : a \notin ReachPlus(a)

\* the set of the reported components, each as a set
Components == {Range(scc_list[i]) : i \in 1..Len(scc_list)}

\* the program has built its graph
Built == pc \notin {"load", "build"}

\* find_strongly_connected_components has returned
SccReturned == \/ tool = "ADA" /\ pc \in {"cycles", "violations", "recommend", "done"}
               \/ tool = "ACD" /\ pc \in {"report", "done"}

\* the cycle enumeration has returned
CyclesReturned == \/ tool = "ADA" /\ pc \in {"violations", "recommend", "done"}
                  \/ tool = "DA" /\ pc = "done"

\* the modules of the active calls, outermost first
CallChain == [i \in 1..Len(calls) |-> calls[i].node]

\* c is [m0, ..., mk, m0] with m0..mk pairwise distinct known modules and every
\* consecutive pair an edge of dependency_graph
ClosedSimplePath(c) ==
    /\ Len(c) >= 2
    /\ c[1] = c[Len(c)]
    /\ \A i \in 1..Len(c) : c[i] \in Known
    /\ \A i, j \in 1..(Len(c) - 1) : i # j => c[i] # c[j]
    /\ \A i \in 1..(Len(c) - 1) : c[i + 1] \in Get(dependency_graph, c[i], {})

---------------------------------------------------------------------------
(* C1: Completeness.  When AssemblyDependencyAnalyzer has run both passes, every
   component returned by find_strongly_connected_components contains the node
   set of at least one cycle returned by detect_circular_dependencies. *)
C1_Completeness ==
    (tool = "ADA" /\ CyclesReturned) =>
        \A i \in 1..Len(scc_list) :
            \E j \in 1..Len(cycles) : Range(cycles[j]) \subseteq Range(scc_list[i])

\* both passes have returned on a graph with a component of three modules
C1_Witness ==
    /\ tool = "ADA" /\ pc = "done"
    /\ \E i \in 1..Len(scc_list) : Len(scc_list[i]) = 3
    /\ \E j \in 1..Len(cycles) : Range(cycles[j]) \subseteq Range(scc_list[1])

\* the number of reported components that contain every node of c
Containing(c) == Cardinality({i \in 1..Len(scc_list) : Range(c) \subseteq Range(scc_list[i])})

(* C2 as stated: Containment.  Every cycle returned by
   detect_circular_dependencies, a self-reference cycle [X, X] included, lies
   in exactly one returned component. *)
C2_Original ==
    (tool = "ADA" /\ CyclesReturned) =>
        \A j \in 1..Len(cycles) : Containing(cycles[j]) = 1

(* C2 as amended: every returned cycle through two or more distinct modules
   lies in exactly one returned component; a self-reference cycle [X, X] lies
   in at most one, and in none when X is on no other cycle. *)
C2_Containment ==
    (tool = "ADA" /\ CyclesReturned) =>
        \A j \in 1..Len(cycles) :
            LET c == cycles[j] IN
            /\ Cardinality(Range(c)) >= 2 => Containing(c) = 1
            /\ Cardinality(Range(c)) = 1 =>
                  /\ Containing(c) <= 1
                  /\ SccOf(c[1]) = {c[1]} => Containing(c) = 0

\* a two-module cycle inside a component, next to a self-reference cycle of a
\* module that no component contains
C2_Witness ==
    /\ tool = "ADA" /\ pc = "done"
    /\ \E j \in 1..Len(cycles) :
          Cardinality(Range(cycles[j])) = 2 /\ Containing(cycles[j]) = 1
    /\ \E j \in 1..Len(cycles) :
          Cardinality(Range(cycles[j])) = 1 /\ Containing(cycles[j]) = 0

(* C3: No false positives.  While the dependency graph restricted to known
   modules is acyclic (no self-edge either), the cycle lists of
   detect_circular_dependencies and find_cycles and the component lists of both
   find_strongly_connected_components stay empty, to the end of the run. *)
C3_NoFalsePositives == (cycles # << >> \/ scc_list # << >>) => ~Acyclic

\* a run has ended on an acyclic graph with a chain a -> b -> c
C3_Witness ==
    /\ pc = "done" /\ Acyclic
    /\ \E a, b, c \in Known : a # c /\ Edge(a, b) /\ Edge(b, c)
    /\ cycles = << >> /\ scc_list = << >>

(* C4: every cycle that detect_circular_dependencies appends is [m0, ..., mk, m0]
   with m0..mk pairwise distinct known modules joined by edges of
   dependency_graph, and it is the chain of active dfs calls from the first
   occurrence of m0 to the current node, followed by m0. *)
C4_CycleShape ==
    [][(tool = "ADA" /\ cycles' # cycles) =>
          /\ Len(cycles') = Len(cycles) + 1
          /\ SubSeq(cycles', 1, Len(cycles)) = cycles
          /\ LET c == cycles'[Len(cycles')] IN
             /\ ClosedSimplePath(c)
             /\ c[1] \in Range(CallChain)
             /\ c = SliceFrom(CallChain, ListIndex(CallChain, c[1])) \o <<c[1]>>]_vars

\* a cycle through three modules has been returned
C4_Witness ==
    /\ tool = "ADA"
    /\ \E j \in 1..Len(cycles) : Len(cycles[j]) = 4 /\ ClosedSimplePath(cycles[j])

(* C5: the components returned by either Tarjan implementation are exactly the
   strongly connected components of the known modules that have more than one
   member: maximal, pairwise disjoint, without repetition, none of size one. *)
C5_TarjanExact ==
    SccReturned =>
        /\ Components = {S \in {SccOf(a) : a \in Known} : Cardinality(S) > 1}
        /\ Len(scc_list) = Cardinality(Components)
        /\ \A i \in 1..Len(scc_list) : Len(scc_list[i]) = Cardinality(Range(scc_list[i]))

\* a component of two modules has been returned while the third module, which
\* depends on it, is in none
C5_Witness ==
    /\ SccReturned /\ pc = "done"
    /\ Len(scc_list) = 1 /\ Len(scc_list[1]) = 2
    /\ \E a \in Known \ Range(scc_list[1]) : \E b \in Range(scc_list[1]) : Edge(a, b)

\* X lists itself as a dependency and is on no other cycle
LoneSelfLoop(X) == Edge(X, X) /\ SccOf(X) = {X}

(* C6 as stated: Self-loop.  For a known module X that lists itself as a
   dependency and is on no other cycle, detect_circular_dependencies and
   find_cycles return the cycle [X, X], and neither
   find_strongly_connected_components returns a component containing X. *)
C6_SelfLoop ==
    \A X \in Known : LoneSelfLoop(X) =>
        /\ CyclesReturned => \E j \in 1..Len(cycles) : cycles[j] = <<X, X>>
        /\ SccReturned => X \notin UNION Components

\* the graph has exactly the edges of a cycle through the three declared names
Scenario1 ==
    /\ Known = Modules
    /\ \A a \in Modules : \E b \in Modules \ {a} : Get(dependency_graph, a, {}) = {b}
    /\ \A a, b \in Modules : a # b => Get(dependency_graph, a, {}) # Get(dependency_graph, b, {})

\* in Scenario 1, the module that a depends on
NextOf(a) == CHOOSE b \in Get(dependency_graph, a, {}) : TRUE

(* C7: Scenario 1.  On the graph with exactly the edges A -> B, B -> C, C -> A
   either find_strongly_connected_components returns exactly one component,
   with members {A, B, C}, and detect_circular_dependencies returns a cycle that
   is a rotation of A -> B -> C -> A. *)
C7_Scenario1 ==
    Scenario1 =>
        /\ SccReturned =>
              /\ Len(scc_list) = 1
              /\ Len(scc_list[1]) = 3
              /\ Range(scc_list[1]) = Modules
        /\ (tool = "ADA" /\ CyclesReturned) =>
              \E j \in 1..Len(cycles) : \E a \in Modules :
                  cycles[j] = <<a, NextOf(a), NextOf(NextOf(a)), a>>

\* AssemblyDependencyAnalyzer has finished on a three-module cycle
C7_Witness ==
    /\ tool = "ADA" /\ pc = "done"
    /\ Scenario1
    /\ Len(scc_list) = 1 /\ cycles # << >>

\* every "references" entry of m whose target is not declared is in the forward
\* adjacency of m
Retained(m) == \A r \in asmdef[m].references \ Known : r \in Get(dependency_graph, m, {})

\* no traversal has entered a name that is not declared
NeverExpanded ==
    /\ visited \subseteq Known
    /\ DOMAIN index \subseteq Known
    /\ \A i \in 1..Len(calls) : calls[i].node \in Known

\* no returned cycle or component holds a name that is not declared
OnlyDeclaredReturned ==
    /\ \A j \in 1..Len(cycles) : Range(cycles[j]) \subseteq Known
    /\ \A i \in 1..Len(scc_list) : Range(scc_list[i]) \subseteq Known

\* every edge of the graph points to a name that is not declared
OnlyExternalEdges == \A a, b \in Known : ~Edge(a, b)

(* C8 as stated: External targets.  Every graph builder keeps a dependency on
   an undeclared name in the forward adjacency of the depending module; no
   traversal expands such a name; no returned cycle or component contains one;
   a graph whose edges all point to undeclared names yields no cycle. *)
C8_Original ==
    Built =>
        /\ \A m \in Known : Retained(m)
        /\ NeverExpanded
        /\ OnlyDeclaredReturned
        /\ OnlyExternalEdges => cycles = << >>

(* C8 as amended: AssemblyDependencyAnalyzer.build_dependency_graph and
   DependencyAnalyzer.load_assemblies keep a "references" entry on an undeclared
   name in the forward adjacency of the depending module, while
   analyze_circular_deps.build_dependency_graph drops it; in all three no
   traversal expands an undeclared name, no returned cycle or component contains
   one, and a graph whose edges all point to undeclared names yields no cycle. *)
C8_ExternalTargets ==
    Built =>
        /\ tool \in {"ADA", "DA"} => \A m \in Known : Retained(m)
        /\ tool = "ACD" => \A m \in Known : Get(dependency_graph, m, {}) \subseteq Known
        /\ NeverExpanded
        /\ OnlyDeclaredReturned
        /\ OnlyExternalEdges => cycles = << >>

\* AssemblyDependencyAnalyzer has finished on a graph in which a module on a
\* cycle also depends on the undeclared name
C8_Witness ==
    /\ tool = "ADA" /\ pc = "done"
    /\ \E m \in Known : External \in Get(dependency_graph, m, {}) /\ m \in ReachPlus(m)
    /\ cycles # << >>

\* the module carries a restricted tag, by the classifier's name tests
Restricted(name) == HasDotEditor(name) \/ HasDotTest(name)

\* every category-cycle violation reported
CategoryCycles == violations.editor_runtime_cycles \cup violations.test_production_cycles

(* C9 as stated: whenever a cycle of any length among known modules has a
   restricted participant and a participant that is not restricted,
   analyze_dependency_violations reports at least one category-cycle
   violation. *)
C9_CategoryComplete ==
    (tool = "ADA" /\ pc = "done") =>
        ((\E a, b \in Known : Restricted(a) /\ ~Restricted(b) /\ b \in SccOf(a))
            => CategoryCycles # {})

\* X and Y are declared with exactly the references X -> Y and Y -> X, and the
\* graph has no other edge
Scenario3(X, Y) ==
    /\ X # Y
    /\ HasDotTest(X) /\ ~HasDotEditor(X) /\ ~Restricted(Y)
    /\ asmdef[X].references = {Y}
    /\ asmdef[Y].references = {X}
    /\ \A m \in Known :
          Get(dependency_graph, m, {}) = IF m = X THEN {Y} ELSE IF m = Y THEN {X} ELSE {}

(* C10: Scenario 3.  With X test-only, Y without restricted tag and exactly the
   edges X -> Y and Y -> X, analyze_dependency_violations reports exactly one
   category-cycle violation in total, and it names both X and Y. *)
C10_Scenario3 ==
    (tool = "ADA" /\ pc = "done") =>
        \A X, Y \in Known : Scenario3(X, Y) =>
            /\ Cardinality(violations.editor_runtime_cycles)
                 + Cardinality(violations.test_production_cycles) = 1
            /\ \A v \in CategoryCycles : Range(v) = {X, Y}

\* the classifier has run on Scenario 3
C10_Witness ==
    /\ tool = "ADA" /\ pc = "done"
    /\ \E X, Y \in Known : Scenario3(X, Y)
    /\ CategoryCycles # {}

(* C11 as stated: Dangling reference.  For every declared dependency whose
   target is not a known module, missing_dependencies of
   analyze_dependency_violations contains that target. *)
C11_Dangling ==
    (tool = "ADA" /\ pc = "done") =>
        \A m \in Known : \A r \in assemblies[m].references \ Known :
            r \in violations.missing_dependencies

\* the four lists of the violations dict
ViolationKinds == {"editor_runtime_cycles", "test_production_cycles",
                   "circular_core_dependencies", "missing_dependencies"}

(* C12 as stated: Self-dependency.  Whenever a known module X lists itself as a
   dependency, analyze_dependency_violations reports a violation whose only
   participant is X. *)
C12_SelfDependency ==
    (tool = "ADA" /\ pc = "done") =>
        \A X \in Known : Edge(X, X) =>
            \E k \in ViolationKinds : \E v \in violations[k] : Range(v) = {X}

---------------------------------------------------------------------------
(* The analyser run twice on the same declarations *)

\* what a run leaves in its report: the ordered cycles and components
RunOutput == [cycles |-> cycles, scc_list |-> scc_list]

\* main() is run once more on the unchanged project: a new analyser object
\* (__init__), the output of the run before kept for comparison
Rerun ==
    /\ tool = "ADA" /\ pc = "done" /\ first = NoRun
    /\ first' = RunOutput
    /\ pc' = "load"
    /\ assemblies' = EmptyDict
    /\ dependency_graph' = EmptyDict
    /\ reverse_dependency_graph' = EmptyDict
    /\ scc_list' = << >>
    /\ cycles' = << >>
    /\ violations' = [editor_runtime_cycles |-> {}, test_production_cycles |-> {},
                      circular_core_dependencies |-> {}, missing_dependencies |-> {}]
    /\ recommendations' = << >>
    /\ UNCHANGED <<scriptVars, exit_code, loadVars, tool, asmdef, calls,
                   index_counter, stack, lowlinks, index, on_stack,
                   visited, rec_stack, path>>

InitRerun == Init /\ tool = "ADA"

NextRerun ==
    \/ AdaLoad
    \/ AdaBuild
    \/ AdaSccRoot
    \/ AdaSccVisit
    \/ AdaSccReturn
    \/ AdaSccDone
    \/ AdaDetectRoot
    \/ AdaDetectVisit
    \/ AdaDetectReturn
    \/ AdaDetectDone
    \/ AdaViolations
    \/ AdaRecommend
    \/ Rerun

SpecRerun == InitRerun /\ [][NextRerun]_vars

(* C13 as stated: Determinism.  For a fixed set of declarations the ordered
   list of cycles and the ordered list of components, with the order of the
   members of each, are the same on every run: a second run of
   AssemblyDependencyAnalyzer on the same declarations ends with the output of
   the first. *)
C13_Determinism ==
    (first # NoRun /\ pc = "done") => RunOutput = first

---------------------------------------------------------------------------
(* Termination *)

\* the position of pc in the main routine, counted from its end
StepsLeft ==
    CASE pc = "load" -> 6
      [] pc = "build" -> 5
      [] pc = "scc" -> 4
      [] pc = "cycles" -> 3
      [] pc = "violations" -> 2
      [] pc \in {"recommend", "report"} -> 1
      [] OTHER -> 0

\* the names a traversal has entered: visited (dfs) or indexed (strongconnect)
Entered == visited \cup DOMAIN index

\* the names the running traversal may yet enter: the traversals enter
\* declared modules only
ToEnter == IF pc \in {"scc", "cycles"} THEN Known \ Entered ELSE {}

RECURSIVE PendingFrom(_)
\* the neighbours that the active calls from the i-th on have yet to iterate over
PendingFrom(i) ==
    IF i > Len(calls) THEN 0 ELSE Cardinality(calls[i].todo) + PendingFrom(i + 1)

\* more than one call costs: the call itself and the longest neighbour list
EnterWeight == Cardinality(RefTargets \cup AsmTargets) + 2

\* more than a whole traversal costs
PhaseWeight == Cardinality(Modules) * EnterWeight + 1

\* the work left in the run
Measure ==
    StepsLeft * PhaseWeight + Cardinality(ToEnter) * EnterWeight
        + PendingFrom(1) + Len(calls)

(* C14: Termination.  Every cycle enumeration (detect_circular_dependencies,
   find_cycles) and every Tarjan pass returns: the run is never stuck before its
   end, and every step lowers a natural number, the work left.  A call that
   iterates over a module's neighbours is made only for a module that the
   traversal has not entered before, so each module is entered, and its
   neighbour list iterated, at most once per invocation. *)
C14_Termination ==
    /\ [](pc # "done" => ENABLED Next)
    /\ [][Measure' < Measure]_vars
    /\ [][Len(calls') > Len(calls) =>
            /\ Top(calls').node \notin Entered
            /\ Top(calls').node \in Entered']_vars

\* a run has ended on a graph in which a module with a self-edge is on a cycle
\* with another module
C14_Witness ==
    /\ pc = "done"
    /\ \E a \in Known : Edge(a, a) /\ Cardinality(SccOf(a)) > 1

---------------------------------------------------------------------------
\* an analysis pass of AssemblyDependencyAnalyzer or of analyze_circular_deps.py
\* is running
InAnalysis ==
    \/ tool = "ADA" /\ pc \in {"scc", "cycles", "violations", "recommend"}
    \/ tool = "ACD" /\ pc \in {"scc", "report"}

(* C15: no analysis pass mutates the graph.  Every step of
   detect_circular_dependencies, find_strongly_connected_components (both
   programs), analyze_dependency_violations and generate_fix_recommendations
   leaves assemblies, dependency_graph and reverse_dependency_graph as they
   were, key sets included. *)
C15_GraphUntouched == [][InAnalysis => UNCHANGED graphVars]_vars

\* the passes have run on a graph in which a declared module has no key in
\* dependency_graph and has been looked up
C15_Witness ==
    /\ tool = "ADA" /\ pc = "done"
    /\ \E a, b \in Known : Edge(a, b) /\ b \notin DOMAIN dependency_graph
    /\ recommendations # << >>

(* C16: after AssemblyDependencyAnalyzer.build_dependency_graph and in every
   later state, for all names a and b, b is in dependency_graph[a] if and only
   if a is in reverse_dependency_graph[b]. *)
C16_MutualInverses ==
    (tool = "ADA" /\ Built) =>
        /\ \A a \in DOMAIN dependency_graph : \A b \in dependency_graph[a] :
               a \in Get(reverse_dependency_graph, b, {})
        /\ \A b \in DOMAIN reverse_dependency_graph : \A a \in reverse_dependency_graph[b] :
               b \in Get(dependency_graph, a, {})

\* the graph has been built from "references" and "assemblyReferences" with an
\* edge to an undeclared name and an edge between two declared modules
C16_Witness ==
    /\ tool = "ADA" /\ pc = "scc"
    /\ \E a \in Known : External \in Get(dependency_graph, a, {})
    /\ \E a, b \in Known : a # b /\ a \in Get(reverse_dependency_graph, b, {})
    /\ \E a \in Known : assemblies[a].assembly_references # {}

(* C20 as stated: exit code contract of analyze_circular_deps.py.  The command
   exits 0 exactly when the graph of the declared modules has no cycle of any
   length, a module depending on itself included, and 1 exactly when it has
   one. *)
C20_ExitCode ==
    (tool = "ACD" /\ exit_code # NoExit) =>
        /\ exit_code = 0 <=> Acyclic
        /\ exit_code = 1 <=> ~Acyclic

---------------------------------------------------------------------------
(* Properties of the loaders *)

\* the files that json.load can read
Parsable == {f \in Stems : files[f].json}

\* the declarations without a name
Nameless == {f \in Parsable : "name" \notin DOMAIN files[f].data}

\* the declarations with a name
Named == Parsable \ Nameless

\* the "references" of the declaration in file f
Refs(f) == Get(files[f].data, "references", {})

\* the loader has gone through every file and returned
LoadFinished == pc \notin {"files", "aborted"}

\* the key under which the running loader stores the declaration of file f
StoredName(f) == IF tool = "ADA" THEN AdaName(f) ELSE EmptyDefaultName(f)

\* two declarations share a name and differ in their dependency lists
Conflicting(f, g) ==
    /\ f \in Named /\ g \in Named /\ f # g
    /\ files[f].data["name"] = files[g].data["name"]
    /\ Refs(f) # Refs(g)

\* the output records that name n was declared more than once: a line about a
\* duplicate, or any line naming n printed more than once
Flagged(n) ==
    \E msg \in DOMAIN printed : msg[2] = n /\ (msg[1] = "Duplicate" \/ printed[msg] > 1)

(* C17 as stated: Duplicate names.  When two loaded declarations share a module
   name and differ in their dependency lists, the loader has merged them (the
   dependencies of both are stored under the name) or has recorded the
   duplicate. *)
C17_Duplicates ==
    LoadFinished =>
        \A f, g \in Stems : Conflicting(f, g) =>
            LET n == files[f].data["name"] IN
            \/ n \in Known /\ (Refs(f) \cup Refs(g)) \subseteq assemblies[n].references
            \/ Flagged(n)

(* C18 as stated: Malformed input.  A declaration without a name creates no
   node (every node is the name of a named declaration: none is the empty
   string or a file stem), the named declarations are loaded, and the number of
   skipped declarations is reported. *)
C18_Nameless ==
    LoadFinished =>
        /\ Known = {files[f].data["name"] : f \in Named}
        /\ Nameless # {} =>
              \E msg \in DOMAIN printed :
                  msg[1] = "Skipped" /\ msg[2] = ToString(Cardinality(Nameless))

\* this step is the loader's iteration for a file that json.load cannot read
BadFileStep == loaded' # loaded /\ (loaded' \ loaded) \cap Parsable = {}

\* what is stored comes from the files that can be read, as if there were no others
StoredFromParsable ==
    /\ Known = {StoredName(f) : f \in Parsable}
    /\ \A n \in Known :
          \E f \in Parsable : StoredName(f) = n /\ assemblies[n].references = Refs(f)

(* C19: a declaration file that cannot be parsed never aborts the run.  The
   loader's step for it changes nothing of what is stored; when the loader has
   returned, what is stored is what the readable files give; and the run is
   never stuck before its end, so that the analysis returns its cycles and
   components. *)
C19_BadFileSkipped ==
    /\ [](pc # "aborted")
    /\ [][BadFileStep => UNCHANGED <<graphVars, pc>>]_vars
    /\ [](LoadFinished => StoredFromParsable)
    /\ [](pc # "done" => ENABLED NextLoad)

\* a run has ended with a cycle or a component found among the readable files,
\* after an error was printed for an unreadable one
C19_Witness ==
    /\ pc = "done"
    /\ \E f \in Stems \ Parsable : Get(printed, <<"Error", f>>, 0) = 1
    /\ Cardinality(Known) > 1
    /\ cycles # << >> \/ scc_list # << >>

---------------------------------------------------------------------------
(* Properties of DependencyAnalyzer.find_cycles *)

\* c is [m0, ..., mk, m0] and every consecutive pair is an edge of dependency_graph
ClosedForwardPath(c) ==
    /\ Len(c) >= 2
    /\ c[1] = c[Len(c)]
    /\ \A i \in 1..(Len(c) - 1) : c[i + 1] \in Get(dependency_graph, c[i], {})

(* C21 as stated: every cycle returned by DependencyAnalyzer.find_cycles, for
   every graph and every order of the roots, is a closed forward path
   [m0, ..., mk, m0] in which each consecutive pair is an edge of
   dependency_graph, also when an earlier root already produced a cycle. *)
C21_ClosedPath ==
    tool = "DA" => \A j \in 1..Len(cycles) : ClosedForwardPath(cycles[j])

(* C22 as stated: in DependencyAnalyzer.find_cycles rec_stack is at every point
   the set of the modules in path, path is the chain of the active dfs calls,
   and both are empty whenever the top-level loop is about to start a DFS from
   a new root. *)
C22_OnPathExact ==
    (tool = "DA" /\ pc = "cycles") =>
        /\ rec_stack = Range(path)
        /\ path = CallChain
        /\ calls = << >> => (rec_stack = {} /\ path = << >>)

(* C23: DependencyAnalyzer.find_cycles returns an empty list if and only if the
   dependency graph restricted to the known modules has no cycle, self-edges
   counting as cycles. *)
C23_EmptyIffAcyclic ==
    (tool = "DA" /\ pc = "done") => (cycles = << >> <=> Acyclic)

\* find_cycles has returned a cycle on a graph whose only cycle is a self-edge
\* of a module that another module depends on
C23_Witness ==
    /\ tool = "DA" /\ pc = "done"
    /\ cycles # << >>
    /\ \E a, b \in Known : a # b /\ Edge(a, b) /\ Edge(b, b) /\ SccOf(b) = {b}
    /\ \A a \in Known : a \in ReachPlus(a) => Edge(a, a)

---------------------------------------------------------------------------
(* C24 as stated: category cycle detection is sound.  Every violation reported
   by analyze_dependency_violations names two known modules A and B with both
   A -> B and B -> A edges of dependency_graph, of which at least one carries a
   restricted tag (Editor or Test) and at least one carries none. *)
C24_CategorySound ==
    (tool = "ADA" /\ pc = "done") =>
        \A v \in CategoryCycles :
            /\ Edge(v[1], v[2]) /\ Edge(v[2], v[1])
            /\ Restricted(v[1]) \/ Restricted(v[2])
            /\ ~Restricted(v[1]) \/ ~Restricted(v[2])

(* C25 as stated: in AssemblyDependencyAnalyzer.run_analysis every sequence that
   the recommendations list as a detected cycle ("Cycle i: a -> b -> ...") is
   one of the cycles returned by detect_circular_dependencies in the same run,
   hence a closed path of forward edges. *)
C25_ListedAreCycles ==
    (tool = "ADA" /\ pc = "done") =>
        \A i \in 1..Len(recommendations.listed) :
            /\ \E j \in 1..Len(cycles) : cycles[j] = recommendations.listed[i]
            /\ ClosedForwardPath(recommendations.listed[i])

---------------------------------------------------------------------------
(* AssemblyDependencyAnalyzer run on denser graphs of the declared modules *)

\* the number of "references" entries over all declarations, all of them naming
\* declared modules
MaxDenseRefs == 4

InitDense ==
    /\ tool = "ADA"
    /\ pc = "load"
    /\ \E r \in {E \in SUBSET (Modules \X Modules) : Cardinality(E) <= MaxDenseRefs} :
          asmdef = [m \in Modules |-> [references |-> TargetsOf(r, m),
                                        assemblyReferences |-> NoAsmRefs]]
    /\ assemblies = EmptyDict
    /\ dependency_graph = EmptyDict
    /\ reverse_dependency_graph = EmptyDict
    /\ calls = << >>
    /\ index_counter = 0
    /\ stack = << >>
    /\ lowlinks = EmptyDict
    /\ index = EmptyDict
    /\ on_stack = EmptyDict
    /\ scc_list = << >>
    /\ visited = {}
    /\ rec_stack = {}
    /\ path = << >>
    /\ cycles = << >>
    /\ violations = [editor_runtime_cycles |-> {}, test_production_cycles |-> {},
                     circular_core_dependencies |-> {}, missing_dependencies |-> {}]
    /\ recommendations = << >>
    /\ exit_code = NoExit
    /\ files = EmptyDict
    /\ loaded = {}
    /\ printed = EmptyDict
    /\ first = NoRun
    /\ disk = EmptyDict
    /\ disk0 = EmptyDict
    /\ fixes_applied = << >>
    /\ deletion_log = << >>
    /\ audit_data = EmptyDict
    /\ results = EmptyDict

SpecDense == InitDense /\ [][NextRerun]_vars

\* the modules that the cycles of a cycle list implicate
Implicated(cs) == UNION {Range(cs[j]) : j \in 1..Len(cs)}

\* the modules that lie on some cycle of the graph
OnSomeCycle == {a \in Known : a \in ReachPlus(a)}

(* C26 as stated: the set of implicated modules is traversal-independent.  The
   union of the node sets of the cycles returned by
   detect_circular_dependencies is the set of the modules that lie on some
   cycle, and a second run on the same graph, whatever its iteration orders,
   implicates the same modules as the first. *)
C26_ImplicatedSet ==
    (tool = "ADA" /\ pc = "done") =>
        /\ Implicated(cycles) = OnSomeCycle
        /\ first # NoRun => Implicated(cycles) = Implicated(first.cycles)

---------------------------------------------------------------------------
(* CircularDependencyFixer (fix_circular_dependencies.py).  The disk holds the
   .asmdef files of the project and, under assembly_backup (a directory inside
   the project root), their backup copies.  A path is <<directory, file name>>.
   A list that is only appended to and counted (fixes_applied) is modelled by
   the bag of its entries. *)

CultivationAsmdef == "ProjectChimera.Systems.Cultivation.asmdef"
VisualsAsmdef     == "ProjectChimera.Visuals.asmdef"
PerformanceAsmdef == "ProjectChimera.Systems.Performance.asmdef"

AsmdefFiles == {CultivationAsmdef, VisualsAsmdef, PerformanceAsmdef}

\* self.project_root / <relative path of the file>
ProjectPath(f) == <<"project", f>>

\* self.backup_dir / relative_path
BackupPath(f) == <<"assembly_backup", f>>

\* the "name" each file declares before the fixer runs
DeclaredName(f) ==
    CASE f = CultivationAsmdef -> "ProjectChimera.Systems.Cultivation"
      [] f = VisualsAsmdef -> "ProjectChimera.Visuals"
      [] OTHER -> "ProjectChimera.Systems.Performance"

\* the names that "references" entries are drawn from
FixRefs == {"ProjectChimera.Visuals", "ProjectChimera.Systems.Visuals",
            "ProjectChimera.Genetics"}

\* the longest "references" list of a file
MaxFixRefs == 2

RefLists == UNION {[1..n -> FixRefs] : n \in 0..MaxFixRefs}

\* what a file may hold: text that json.load rejects, or an object with "name",
\* "references" and possibly "rootNamespace"
AsmdefContents(f) ==
    {[json |-> FALSE, data |-> EmptyDict]}
    \cup {[json |-> TRUE,
           data |-> Put(Put(EmptyDict, "name", DeclaredName(f)), "references", r)] :
             r \in RefLists}
    \cup {[json |-> TRUE,
           data |-> Put(Put(Put(EmptyDict, "name", DeclaredName(f)), "references", r),
                        "rootNamespace", DeclaredName(f))] :
             r \in IF f = VisualsAsmdef THEN RefLists ELSE {}}

\* a path with no file at it
NoFile == [json |-> FALSE, data |-> Put(EmptyDict, "exists", FALSE)]

\* the entries of name_corrections that concern the names of the model
NameCorrections ==
    [ref \in {"ProjectChimera.Visuals", "ProjectChimera.Genetics"} |->
        IF ref = "ProjectChimera.Visuals" THEN "ProjectChimera.Systems.Visuals"
        ELSE "ProjectChimera.Systems.Genetics"]

\* one more entry m in the bag b
Inc(b, m) == Put(b, m, Get(b, m, 0) + 1)

RECURSIVE IncAll(_, _)
\* every entry of the sequence ms added to the bag b
IncAll(b, ms) == IF ms = << >> THEN b ELSE IncAll(Inc(b, Head(ms)), Tail(ms))

\* list.remove(x): the list without the first occurrence of x
RemoveFirst(refs, x) ==
    LET i == ListIndex(refs, x)
    IN SubSeq(refs, 1, i - 1) \o SubSeq(refs, i + 1, Len(refs))

\* the .asmdef files that rglob finds under the project root: every file on the
\* disk, those under assembly_backup included
Rglob(d) == DOMAIN d

\* the p-th file after the statements of fix 1 whose condition is "ref in
\* name_corrections": references[i] = name_corrections[ref]
CorrectedRefs(refs) ==
    [i \in DOMAIN refs |->
        IF refs[i] \in DOMAIN NameCorrections THEN NameCorrections[refs[i]] ELSE refs[i]]

\* the lines that fix 1 appends to fixes_applied for the file at path p
NameFixes(d, p) ==
    IF ~d[p].json THEN << >>
    ELSE LET refs == Get(d[p].data, "references", << >>)
             hit == {i \in DOMAIN refs : refs[i] \in DOMAIN NameCorrections}
             RECURSIVE Lines(_)
             Lines(i) == IF i > Len(refs) THEN << >>
                         ELSE (IF i \in hit
                               THEN <<<<"Fixed reference", p[2], refs[i], NameCorrections[refs[i]]>>>>
                               ELSE << >>) \o Lines(i + 1)
         IN Lines(1)

RECURSIVE AllNameFixes(_, _, _)
AllNameFixes(b, d, P) ==
    IF P = {} THEN b
    ELSE LET p == CHOOSE x \in P : TRUE
         IN AllNameFixes(IncAll(b, NameFixes(d, p)), d, P \ {p})

\* the file at path p rewritten with "references" rs (json.dump of the changed data)
WithRefs(content, rs) == [content EXCEPT !.data = Put(content.data, "references", rs)]

InitFix ==
    /\ tool = "FIX"
    /\ pc = "backup"
    /\ \E cultivation \in AsmdefContents(CultivationAsmdef) \cup {NoFile} :
       \E visuals \in AsmdefContents(VisualsAsmdef) \cup {NoFile} :
       \E performance \in AsmdefContents(PerformanceAsmdef) \cup {NoFile} :
       \E stale \in SUBSET {CultivationAsmdef} :
          LET c == [f \in AsmdefFiles |->
                       CASE f = CultivationAsmdef -> cultivation
                         [] f = VisualsAsmdef -> visuals
                         [] OTHER -> performance]
              present == {f \in AsmdefFiles : c[f] # NoFile}
          IN disk = [p \in {ProjectPath(f) : f \in present} \cup {BackupPath(f) : f \in stale}
                       |-> IF p[1] = "project" THEN c[p[2]]
                           ELSE [json |-> FALSE, data |-> EmptyDict]]
    /\ disk0 = disk
    /\ fixes_applied = EmptyDict
    /\ deletion_log = << >>
    /\ audit_data = EmptyDict
    /\ results = EmptyDict
    /\ asmdef = EmptyDict
    /\ assemblies = EmptyDict
    /\ dependency_graph = EmptyDict
    /\ reverse_dependency_graph = EmptyDict
    /\ calls = << >>
    /\ index_counter = 0
    /\ stack = << >>
    /\ lowlinks = EmptyDict
    /\ index = EmptyDict
    /\ on_stack = EmptyDict
    /\ scc_list = << >>
    /\ visited = {}
    /\ rec_stack = {}
    /\ path = << >>
    /\ cycles = << >>
    /\ violations = [editor_runtime_cycles |-> {}, test_production_cycles |-> {},
                     circular_core_dependencies |-> {}, missing_dependencies |-> {}]
    /\ recommendations = << >>
    /\ exit_code = NoExit
    /\ files = EmptyDict
    /\ loaded = {}
    /\ printed = EmptyDict
    /\ first = NoRun

\* everything but the fixer's own state
fixFrame == <<disk0, deletion_log, audit_data, results, recommendations, exit_code, loadVars, first, tool, asmdef,
              graphVars, calls, tarjanVars, dfsVars, violations>>

\* create_backup: the old backup directory is removed, then every .asmdef file
\* found under the project root is copied into the new one
FixCreateBackup ==
    /\ tool = "FIX" /\ pc = "backup"
    /\ LET kept == [p \in {x \in DOMAIN disk : x[1] # "assembly_backup"} |-> disk[p]]
           found == Rglob(kept)
       IN disk' = [p \in (DOMAIN kept) \cup {BackupPath(x[2]) : x \in found} |->
                      IF p \in DOMAIN kept THEN kept[p] ELSE kept[ProjectPath(p[2])]]
    /\ pc' = "names"
    /\ UNCHANGED <<fixes_applied, fixFrame>>

\* fix_assembly_name_mismatches: every file that rglob finds is read, and written
\* back when one of its references has a correction; a file that json.load
\* rejects is passed over ("except Exception")
FixAssemblyNameMismatches ==
    /\ tool = "FIX" /\ pc = "names"
    /\ disk' = [p \in DOMAIN disk |->
                  IF disk[p].json
                  THEN WithRefs(disk[p], CorrectedRefs(Get(disk[p].data, "references", << >>)))
                  ELSE disk[p]]
    /\ fixes_applied' = AllNameFixes(fixes_applied, disk, Rglob(disk))
    /\ pc' = "break"
    /\ UNCHANGED fixFrame

\* break_cultivation_visuals_cycle, fix 1: "if 'ProjectChimera.Visuals' in
\* references: references.remove('ProjectChimera.Visuals')" on the Cultivation file
CultivationFixed(d) ==
    LET p == ProjectPath(CultivationAsmdef) IN
    IF p \in DOMAIN d /\ d[p].json
          /\ "ProjectChimera.Visuals" \in Range(Get(d[p].data, "references", << >>))
    THEN [d EXCEPT ![p] = WithRefs(d[p], RemoveFirst(d[p].data["references"],
                                                       "ProjectChimera.Visuals"))]
    ELSE d

\* break_cultivation_visuals_cycle, fix 2: 'ProjectChimera.Genetics' becomes
\* 'ProjectChimera.Systems.Genetics' in the Visuals file
VisualsFixed(d) ==
    LET p == ProjectPath(VisualsAsmdef) IN
    IF p \in DOMAIN d /\ d[p].json
          /\ "ProjectChimera.Genetics" \in Range(Get(d[p].data, "references", << >>))
    THEN [d EXCEPT ![p] = WithRefs(d[p],
              [i \in DOMAIN d[p].data["references"] |->
                  IF d[p].data["references"][i] = "ProjectChimera.Genetics"
                  THEN "ProjectChimera.Systems.Genetics"
                  ELSE d[p].data["references"][i]])]
    ELSE d

BreakCultivationVisualsCycle ==
    /\ tool = "FIX" /\ pc = "break"
    /\ disk' = VisualsFixed(CultivationFixed(disk))
    /\ fixes_applied' =
          LET b == IF CultivationFixed(disk) # disk
                   THEN Inc(fixes_applied, <<"Removed ProjectChimera.Visuals reference",
                                             CultivationAsmdef, "", "">>)
                   ELSE fixes_applied
          IN IF VisualsFixed(CultivationFixed(disk)) # CultivationFixed(disk)
             THEN Inc(b, <<"Updated assembly references", VisualsAsmdef, "", "">>)
             ELSE b
    /\ pc' = "specific"
    /\ UNCHANGED fixFrame

\* fix_specific_assembly_issues: its three files (Automation, Scripts, Editor) are
\* not on this disk, so each "if ....exists()" fails
FixSpecificAssemblyIssues ==
    /\ tool = "FIX" /\ pc = "specific"
    /\ pc' = "rename"
    /\ UNCHANGED <<disk, fixes_applied, fixFrame>>

\* update_assembly_names_to_match_directories: of the files it lists, the Visuals
\* file is on this disk; its name, and its rootNamespace if it has one, become
\* "ProjectChimera.Systems.Visuals"
Renamed(content) ==
    LET named == Put(content.data, "name", "ProjectChimera.Systems.Visuals")
    IN [content EXCEPT !.data =
           IF "rootNamespace" \in DOMAIN content.data
           THEN Put(named, "rootNamespace", "ProjectChimera.Systems.Visuals")
           ELSE named]

UpdateAssemblyNames ==
    /\ tool = "FIX" /\ pc = "rename"
    /\ LET p == ProjectPath(VisualsAsmdef)
           due == /\ p \in DOMAIN disk /\ disk[p].json
                  /\ Get(disk[p].data, "name", "") # "ProjectChimera.Systems.Visuals"
       IN /\ disk' = IF due THEN [disk EXCEPT ![p] = Renamed(disk[p])] ELSE disk
          /\ fixes_applied' =
                IF due THEN Inc(fixes_applied, <<"Renamed assembly", VisualsAsmdef,
                                                 Get(disk[p].data, "name", ""),
                                                 "ProjectChimera.Systems.Visuals">>)
                ELSE fixes_applied
    /\ pc' = "optimize"
    /\ UNCHANGED fixFrame

\* optimize_dependencies: of the assemblies in problematic_deps, the Performance
\* file is on this disk; "ProjectChimera.Systems.Visuals" is removed from its
\* references (list.remove: the first occurrence)
OptimizeDependencies ==
    /\ tool = "FIX" /\ pc = "optimize"
    /\ LET p == ProjectPath(PerformanceAsmdef)
           due == /\ p \in DOMAIN disk /\ disk[p].json
                  /\ "ProjectChimera.Systems.Visuals"
                        \in Range(Get(disk[p].data, "references", << >>))
       IN /\ disk' = IF due
                     THEN [disk EXCEPT ![p] =
                             WithRefs(disk[p], RemoveFirst(disk[p].data["references"],
                                                           "ProjectChimera.Systems.Visuals"))]
                     ELSE disk
          /\ fixes_applied' =
                IF due THEN Inc(fixes_applied, <<"Removed problematic dependency",
                                                 PerformanceAsmdef,
                                                 "ProjectChimera.Systems.Visuals", "">>)
                ELSE fixes_applied
    /\ pc' = "done"
    /\ UNCHANGED fixFrame

NextFix ==
    \/ FixCreateBackup
    \/ FixAssemblyNameMismatches
    \/ BreakCultivationVisualsCycle
    \/ FixSpecificAssemblyIssues
    \/ UpdateAssemblyNames
    \/ OptimizeDependencies

SpecFix == InitFix /\ [][NextFix]_vars

\* the references of the file at path p of the disk d (none if it cannot be read)
RefsAt(d, p) ==
    IF p \in DOMAIN d /\ d[p].json THEN Range(Get(d[p].data, "references", << >>)) ELSE {}

(* C27: once run_fixes has completed, every file under the backup directory has
   exactly the content that the corresponding .asmdef file had before run_fixes
   started. *)
C27_BackupIntact ==
    (tool = "FIX" /\ pc = "done") =>
        \A p \in DOMAIN disk :
            p[1] = "assembly_backup" =>
                /\ ProjectPath(p[2]) \in DOMAIN disk0
                /\ disk[p] = disk0[ProjectPath(p[2])]

(* C28: once run_fixes has completed on a project whose Cultivation declaration
   referenced 'ProjectChimera.Visuals', the Cultivation declaration references
   the Visuals assembly under neither of its names. *)
C28_CultivationVisuals ==
    (/\ tool = "FIX" /\ pc = "done"
     /\ "ProjectChimera.Visuals" \in RefsAt(disk0, ProjectPath(CultivationAsmdef))) =>
        RefsAt(disk, ProjectPath(CultivationAsmdef))
            \cap {"ProjectChimera.Visuals", "ProjectChimera.Systems.Visuals"} = {}

---------------------------------------------------------------------------
(* SafeDeletionExecutor (Tools/deletion_execution_script.py).  A path is a
   record: the directory (relative to the project root), the file name, whether
   it is the Unity .meta file next to that file, and whether it is the safety
   copy under DELETION_BACKUPS.  A directory is on the disk as the path with
   name ".".  A log entry is a dict; its "timestamp" is left out.  An unlink may
   raise; the copy that create_safety_backup makes does not.  A run that an
   uncaught exception ends stops with pc the name of the exception. *)

Path(d, n) == [backup |-> FALSE, dir |-> d, name |-> n, meta |-> FALSE]

\* Path(str(file_path) + ".meta")
MetaPath(p) == [p EXCEPT !.meta = TRUE]

\* backup_dir / relative_path
SafetyCopy(p) == [p EXCEPT !.backup = TRUE]

\* Assets/ProjectChimera, where clean_empty_directories starts, and the
\* directories below it
Directory(d) == Path(d, ".")
ProjectDirs == {"Assets/ProjectChimera/Legacy", "Assets/ProjectChimera/Systems"}
RootDir == "Assets/ProjectChimera"

\* the files that the audit may name
AuditedFiles == {Path("Assets/ProjectChimera/Legacy", "Old.cs.disabled"),
                 Path("Assets/ProjectChimera/Systems", "Target.cs")}

\* a file directly in Assets/ProjectChimera that no list of the audit names
KeptFile == Path(RootDir, "ProjectChimera.asmdef")

\* the longest list of the audit data
MaxAudit == 2

\* an entry of "disabled_files" or "backup_files"
FileInfo(p) == Put(EmptyDict, "path", p)

\* the entries of "deletion_targets" (compile_deletion_targets of the audit):
\* a target that the audit did not find carries "status": "not_found"
TargetInfos ==
    LET found(p) == Put(Put(Put(EmptyDict, "path", p), "category", "legacy"),
                        "reason", "Superseded")
    IN {found(p) : p \in AuditedFiles}
       \cup {Put(found(p), "status", "not_found") : p \in AuditedFiles}

ListsOf(S, n) == UNION {[1..k -> S] : k \in 0..n}

AuditData ==
    {[disabled_files |-> d, backup_files |-> b, deletion_targets |-> t] :
        d \in ListsOf({FileInfo(p) : p \in AuditedFiles}, MaxAudit - 1),
        b \in ListsOf({FileInfo(p) : p \in AuditedFiles}, MaxAudit - 1),
        t \in ListsOf(TargetInfos, MaxAudit)}

\* os.remove / del d[k]
Remove(d, k) == [x \in (DOMAIN d) \ {k} |-> d[x]]

InitDelete ==
    /\ tool = "DEL"
    /\ pc = "disabled"
    /\ audit_data \in AuditData
    /\ \E present \in SUBSET (AuditedFiles \cup {MetaPath(p) : p \in AuditedFiles}
                                \cup {KeptFile}) :
          disk = [p \in present \cup {Directory(d) : d \in ProjectDirs \cup {RootDir}} |->
                     IF p.name = "." THEN "directory"
                     ELSE IF p.meta THEN "meta" ELSE "source"]
    /\ disk0 = disk
    /\ deletion_log = << >>
    /\ results = EmptyDict
    /\ fixes_applied = << >>
    /\ asmdef = EmptyDict
    /\ assemblies = EmptyDict
    /\ dependency_graph = EmptyDict
    /\ reverse_dependency_graph = EmptyDict
    /\ calls = << >>
    /\ index_counter = 0
    /\ stack = << >>
    /\ lowlinks = EmptyDict
    /\ index = EmptyDict
    /\ on_stack = EmptyDict
    /\ scc_list = << >>
    /\ visited = {}
    /\ rec_stack = {}
    /\ path = << >>
    /\ cycles = << >>
    /\ violations = [editor_runtime_cycles |-> {}, test_production_cycles |-> {},
                     circular_core_dependencies |-> {}, missing_dependencies |-> {}]
    /\ recommendations = << >>
    /\ exit_code = NoExit
    /\ files = EmptyDict
    /\ loaded = {}
    /\ printed = EmptyDict
    /\ first = NoRun

\* everything but the deletion script's own state
deleteFrame == <<disk0, fixes_applied, audit_data, recommendations, exit_code, loadVars,
                 first, tool, asmdef, graphVars, calls, tarjanVars, dfsVars, violations>>

\* the log entries of the three deletion loops
Deleted(info, type) ==
    LET e == ("file" :> info["path"]) @@ ("type" :> type) @@ ("status" :> "deleted")
             @@ ("backup" :> SafetyCopy(info["path"]))
    IN IF type = "adr_target"
       THEN Put(Put(e, "category", info["category"]), "reason", info["reason"])
       ELSE e

MetaDeleted(info) ==
    ("file" :> MetaPath(info["path"])) @@ ("type" :> "meta_file") @@ ("status" :> "deleted")

Failed(info, type) ==
    ("file" :> info["path"]) @@ ("type" :> type) @@ ("status" :> "error")
    @@ ("error" :> "PermissionError")

\* one pass of the loop body of delete_disabled_files / delete_backup_files /
\* delete_adr_targets on the entry info, with st the disk, the log and
\* deleted_count so far, and fail the paths whose unlink raises
DeleteFile(st, info, type, fail) ==
    LET p == info["path"] IN
    IF type = "adr_target" /\ Get(info, "status", "") = "not_found" THEN st
    ELSE IF p \notin DOMAIN st.disk THEN st
    ELSE LET backed == Put(st.disk, SafetyCopy(p), st.disk[p])
             gone == Remove(backed, p)
             log1 == Append(st.log, Deleted(info, type))
         IN IF p \in fail
            THEN [disk |-> backed, log |-> Append(st.log, Failed(info, type)),
                  count |-> st.count]
            ELSE IF type = "backup_file" \/ MetaPath(p) \notin DOMAIN gone
            THEN [disk |-> gone, log |-> log1, count |-> st.count + 1]
            ELSE IF MetaPath(p) \in fail
            THEN [disk |-> gone, log |-> Append(log1, Failed(info, type)),
                  count |-> st.count + 1]
            ELSE [disk |-> Remove(gone, MetaPath(p)),
                  log |-> Append(log1, MetaDeleted(info)), count |-> st.count + 1]

RECURSIVE DeleteEach(_, _, _, _)
\* "for file_info in self.audit_data[...]"
DeleteEach(st, list, type, fail) ==
    IF list = << >> THEN st
    ELSE DeleteEach(DeleteFile(st, Head(list), type, fail), Tail(list), type, fail)

\* one of the three deletion functions, its count stored as execute_cleanup does
DeleteList(key, type, counter, next) ==
    \E fail \in SUBSET {p \in DOMAIN disk : p.name # "."} :
        LET st == DeleteEach([disk |-> disk, log |-> deletion_log, count |-> 0],
                             audit_data[key], type, fail)
        IN /\ disk' = st.disk
           /\ deletion_log' = st.log
           /\ results' = Put(results, counter, st.count)
           /\ pc' = next
           /\ UNCHANGED deleteFrame

DeleteDisabledFiles ==
    /\ tool = "DEL" /\ pc = "disabled"
    /\ DeleteList("disabled_files", "disabled_file", "disabled_files_deleted", "backups")

DeleteBackupFiles ==
    /\ tool = "DEL" /\ pc = "backups"
    /\ DeleteList("backup_files", "backup_file", "backup_files_deleted", "targets")

DeleteAdrTargets ==
    /\ tool = "DEL" /\ pc = "targets"
    /\ DeleteList("deletion_targets", "adr_target", "adr_targets_deleted", "directories")

\* the directories below Assets/ProjectChimera that hold no file
EmptyDirs(d) ==
    {x \in ProjectDirs : /\ Directory(x) \in DOMAIN d
                         /\ ~\E p \in DOMAIN d : ~p.backup /\ p.dir = x /\ p.name # "."}

Removed(x) == ("directory" :> Directory(x)) @@ ("type" :> "empty_directory")
              @@ ("status" :> "removed")

\* clean_empty_directories, then the totals of execute_cleanup.  os.walk goes
\* bottom-up, the directories of one level in the order the system lists them.
\* At Assets/ProjectChimera, which has directories below it, "if files: continue"
\* passes it over when it holds a file; otherwise the condition of the generator,
\* "(root_path / d).exists()", reads the variable d of the inner list
\* comprehension, which is not in scope there: NameError, which nothing catches
CleanEmptyDirectories ==
    /\ tool = "DEL" /\ pc = "directories"
    /\ LET empty == EmptyDirs(disk)
           files_at_root == {p \in DOMAIN disk : ~p.backup /\ p.dir = RootDir /\ p.name # "."}
       IN \E order \in [1..Cardinality(empty) -> empty] :
             /\ Range(order) = empty
             /\ disk' = [p \in (DOMAIN disk) \ {Directory(x) : x \in empty} |-> disk[p]]
             /\ deletion_log' =
                   deletion_log \o [i \in 1..Cardinality(empty) |-> Removed(order[i])]
             /\ IF files_at_root # {}
                THEN /\ results' =
                          LET r == Put(results, "empty_directories_removed", Cardinality(empty))
                              t == Put(r, "total_files_deleted",
                                       r["disabled_files_deleted"] + r["backup_files_deleted"]
                                       + r["adr_targets_deleted"])
                          IN Put(t, "errors",
                                 Cardinality({i \in 1..Len(deletion_log) :
                                                 Get(deletion_log[i], "status", "") = "error"}))
                     /\ pc' = "save"
                ELSE /\ results' = results
                     /\ pc' = "NameError"
    /\ UNCHANGED deleteFrame

\* self.project_root / output_file
LogFile == Path("", "DELETION_LOG.json")
ReportFile == Path("", "DELETION_REPORT.md")

\* save_deletion_log
SaveDeletionLog ==
    /\ tool = "DEL" /\ pc = "save"
    /\ disk' = Put(disk, LogFile, [total_operations |-> Len(deletion_log),
                                   operations |-> deletion_log])
    /\ pc' = "report"
    /\ UNCHANGED <<deletion_log, results, deleteFrame>>

\* the entries of log that satisfy "log.get(key) == value", in order
Select(log, key, value) == SelectSeq(log, LAMBDA e : Get(e, key, "") = value)

\* the first entry of the list that lacks one of the keys, or 0
FirstLacking(list, keys) ==
    IF \E i \in 1..Len(list) : ~(keys \subseteq DOMAIN list[i])
    THEN CHOOSE i \in 1..Len(list) :
            /\ ~(keys \subseteq DOMAIN list[i])
            /\ \A j \in 1..(i - 1) : keys \subseteq DOMAIN list[j]
    ELSE 0

\* generate_deletion_report: the lines of the two loops are written until a
\* deletion['reason'], error['file'] or error['error'] raises KeyError, which
\* nothing catches; the file keeps what was written so far
GenerateDeletionReport ==
    /\ tool = "DEL" /\ pc = "report"
    /\ LET adr_deletions == Select(deletion_log, "type", "adr_target")
           errors == Select(deletion_log, "status", "error")
           a == FirstLacking(adr_deletions, {"file", "reason"})
           e == FirstLacking(errors, {"file", "error"})
           adr_lines == [i \in 1..(IF a = 0 THEN Len(adr_deletions) ELSE a - 1) |->
                            <<adr_deletions[i]["file"], adr_deletions[i]["reason"]>>]
           error_lines == IF a # 0 THEN << >>
                          ELSE [i \in 1..(IF e = 0 THEN Len(errors) ELSE e - 1) |->
                                   <<errors[i]["file"], errors[i]["error"]>>]
       IN /\ disk' = Put(disk, ReportFile,
                         [summary |-> results, adr |-> adr_lines, errors |-> error_lines,
                          safety_note |-> a = 0 /\ e = 0])
          /\ pc' = IF a = 0 /\ e = 0 THEN "done" ELSE "KeyError"
    /\ UNCHANGED <<deletion_log, results, deleteFrame>>

NextDelete ==
    \/ DeleteDisabledFiles
    \/ DeleteBackupFiles
    \/ DeleteAdrTargets
    \/ CleanEmptyDirectories
    \/ SaveDeletionLog
    \/ GenerateDeletionReport

SpecDelete == InitDelete /\ [][NextDelete]_vars

(* C29: every file that execute_cleanup has removed has a copy under
   DELETION_BACKUPS with the content the file had. *)
C29_BackedUpBeforeDelete ==
    tool = "DEL" =>
        \A p \in (DOMAIN disk0) \ (DOMAIN disk) :
            p.name # "." =>
                /\ SafetyCopy(p) \in DOMAIN disk
                /\ disk[SafetyCopy(p)] = disk0[p]

(* C30: generate_deletion_report completes on every log that execute_cleanup
   has produced: each entry of type 'adr_target' carries 'reason', each entry of
   status 'error' carries 'file' and 'error', and no KeyError is raised. *)
C30_ReportCompletes ==
    (tool = "DEL" /\ pc \in {"save", "report", "done", "KeyError"}) =>
        /\ pc # "KeyError"
        /\ \A i \in 1..Len(deletion_log) :
              /\ Get(deletion_log[i], "type", "") = "adr_target"
                    => "reason" \in DOMAIN deletion_log[i]
              /\ Get(deletion_log[i], "status", "") = "error"
                    => {"file", "error"} \subseteq DOMAIN deletion_log[i]

====
